---- MODULE Spec2Model ----
(***************************************************************************)
(* Hierarchical clustering of term vectors (package cluster): the term     *)
(* vector operations, the parallel driver/worker structure of Cluster and  *)
(* the dendrogram interpreter Interpret.                                   *)
(*                                                                         *)
(* Vector indices and slot indices are 0-based as in the source; the       *)
(* slices sims, merges, flagged and the channel buffer are TLA+ sequences, *)
(* so slot n of the source is sims[n + 1] here.                            *)
(*                                                                         *)
(* float64 values: the norm is kept as its square (field Length holds      *)
(* sum of count^2, of which the source stores the square root), and a      *)
(* cosine is kept as the reduced fraction num/den of its square            *)
(* Dot^2 / (|a|^2 * |b|^2).  All counts are nonnegative, so the order of   *)
(* the squares is the order of the cosines.  Rounding of the float64       *)
(* operations is not modelled.                                             *)
(***************************************************************************)
EXTENDS Integers, Sequences, FiniteSets, TLC

VARIABLES
    input,      \* the token lists the caller built the vectors from
    procs,      \* runtime.GOMAXPROCS(0)
    vecs,       \* vecs []Vec, indexed 0..N-1
    sims,       \* sims []simEntry
    queue,      \* buffered channel contents
    closed,     \* whether close(queue) has happened
    wg,         \* sync.WaitGroup counter
    pc,         \* position of the goroutine that called Cluster
    pi, pj,     \* loop variables i, j of the population loops
    n,          \* slot counter n
    k,          \* index of the range loop over sims in the update
    round,      \* round
    maxsim,     \* maxsim
    merges,     \* merges []Merge
    wpc,        \* position of each worker goroutine
    wn,         \* the slot n each worker received
    clusters,   \* Interpret: clusters [][]int, indexed 0..len(merges)
    flagged,    \* Interpret: flagged [][]int
    mi,         \* Interpret: index of the range loop over merges
    arrays,     \* Interpret: the backing arrays of the []int slices
    chdr,       \* Interpret: the slice header (array, len) of each clusters[x]
    fhdr        \* Interpret: the slice header of each flagged[f]

vars == <<input, procs, vecs, sims, queue, closed, wg, pc, pi, pj, n, k,
          round, maxsim, merges, wpc, wn, clusters, flagged, mi,
          arrays, chdr, fhdr>>

----------------------------------------------------------------------------
(* Bounds *)

\* longest input of the exhaustively enumerated family
MaxN == 3

\* largest worker pool size (GOMAXPROCS)
MaxProcs == 2

\* largest worker pool size in the runs of the long scenarios
ScenarioProcs == 1

----------------------------------------------------------------------------
(* Term vectors *)

Range(s) == {s[p] : p \in DOMAIN s}

RECURSIVE GCD(_, _)
GCD(a, b) == IF b = 0 THEN a ELSE GCD(b, a % b)

\* a float64 quotient num/den of nonnegative operands, kept reduced; a zero
\* divisor gives NaN (0/0) or +Inf (1/0) as in IEEE 754
Ratio(num, den) ==
    IF den = 0 THEN [num |-> IF num = 0 THEN 0 ELSE 1, den |-> 0]
    ELSE [num |-> num \div GCD(num, den), den |-> den \div GCD(num, den)]

Zero == [num |-> 0, den |-> 1]

\* a.M[key] of a Go map: the zero value for a missing key
Get(M, key) == IF key \in DOMAIN M THEN M[key] ELSE 0

RECURSIVE SumSq(_, _)
SumSq(M, keys) ==
    IF keys = {} THEN 0
    ELSE LET key == CHOOSE x \in keys : TRUE
         IN  M[key] * M[key] + SumSq(M, keys \ {key})

\* Renorm: the (squared) euclidean norm of the map
Renorm(M) == [M |-> M, Length |-> SumSq(M, DOMAIN M)]

\* NewVec: count the occurrences of every key of the list
NewVec(list) ==
    Renorm([key \in Range(list) |->
               Cardinality({p \in DOMAIN list : list[p] = key})])

\* Add that sums only under the keys a already has
AddKnownKeys(a, b) ==
    Renorm([key \in DOMAIN a.M |-> a.M[key] + Get(b.M, key)])

\* a.Add(b): a.M[key] += b.M[key] for every key of b, then Renorm
Add(a, b) ==
    Renorm([key \in DOMAIN a.M \cup DOMAIN b.M |->
               IF key \in DOMAIN b.M THEN Get(a.M, key) + b.M[key]
               ELSE a.M[key]])

RECURSIVE DotSum(_, _, _)
DotSum(A, B, keys) ==
    IF keys = {} THEN 0
    ELSE LET key == CHOOSE x \in keys : TRUE
         IN  A[key] * Get(B, key) + DotSum(A, B, keys \ {key})

\* a.Dot(b): iterate over the keys of the smaller map
Dot(a, b) ==
    IF Cardinality(DOMAIN a.M) > Cardinality(DOMAIN b.M)
    THEN DotSum(b.M, a.M, DOMAIN b.M)
    ELSE DotSum(a.M, b.M, DOMAIN a.M)

\* Sim without the test for a zero norm
SimNoZeroTest(a, b) == Ratio(Dot(a, b) * Dot(a, b), a.Length * b.Length)

\* a.Sim(b): 0 when either norm is 0, else Dot / (|a| * |b|)
Sim(a, b) ==
    IF a.Length = 0 \/ b.Length = 0 THEN Zero
    ELSE Ratio(Dot(a, b) * Dot(a, b), a.Length * b.Length)

\* the comparison turned around, and the comparison made non-strict
GreaterFlipped(x, y) == x.num * y.den < y.num * x.den
GreaterOrEqual(x, y) == x.num * y.den >= y.num * x.den

\* x > y on float64 similarity values
Greater(x, y) == x.num * y.den > y.num * x.den

----------------------------------------------------------------------------
(* Inputs *)

TokenLists == {<<>>, <<"a">>, <<"a", "b">>}

RECURSIVE SeqsUpTo(_, _)
SeqsUpTo(S, len) ==
    IF len = 0 THEN {<<>>}
    ELSE LET shorter == SeqsUpTo(S, len - 1)
         IN  shorter \cup {Append(s, x) : s \in {t \in shorter : Len(t) = len - 1}, x \in S}

GeneralInputs == SeqsUpTo(TokenLists, MaxN)

ScenarioA == << <<"a", "a", "b">>, <<"a", "a", "b">>, <<"c">>, <<"d">> >>

ScenarioC == << <<"a">>, <<"b">>, <<"c">>, <<"d">>, <<"e">>,
                <<"f">>, <<"g">>, <<"h">>, <<"i">>, <<"j">> >>

\* seven lists [a] then four lists [b]; eight lists [a] then three lists [b];
\* four lists [a], four lists [b], then three empty lists
ScenarioF == [p \in 1..11 |-> IF p <= 7 THEN <<"a">> ELSE <<"b">>]
ScenarioG == [p \in 1..11 |-> IF p <= 8 THEN <<"a">> ELSE <<"b">>]
ScenarioH == [p \in 1..11 |-> IF p <= 4 THEN <<"a">> ELSE IF p <= 8 THEN <<"b">> ELSE <<>>]

\* four lists in which a merge changes the similarities of the merged vector
\* and leaves a positive similarity between two other vectors
\* ten vectors: two groups of four equal vectors and two empty ones
ScenarioT == [p \in 1..10 |-> IF p <= 4 THEN <<"a">> ELSE IF p <= 8 THEN <<"b">> ELSE <<>>]

ScenarioD == << <<"a">>, <<"a", "b">>, <<"b", "c">>, <<"c">> >>

Inputs == GeneralInputs \cup {ScenarioA, ScenarioD}

N == Len(input)

----------------------------------------------------------------------------
(* Cluster *)

ZeroEntry == [i |-> 0, j |-> 0, val |-> Zero]

\* the allocation counting the pairs (i, i) as well
SimsLenWithDiagonal(len) == ((len + 1) * len) \div 2

\* len of sims as allocated: (len(vecs)-1)*len(vecs)/2
SimsLen(len) == ((len - 1) * len) \div 2

\* a buffer one larger than the pool
QueueCapOneMore == procs + 1

\* cap(queue)
QueueCap == procs

\* the round loop running once more: round < len(vecs)
RoundLimitOneMore == N

\* upper limit of the round loop: round < len(vecs)-1
RoundLimit == N - 1

\* the loop stopping one entry short of the end of sims
RECURSIVE ScanMaxShort(_, _, _)
ScanMaxShort(s, p, cur) ==
    IF p >= Len(s) THEN cur
    ELSE IF Greater(s[p].val, cur.val) THEN ScanMaxShort(s, p + 1, s[p])
    ELSE ScanMaxShort(s, p + 1, cur)

\* the loop over sims that keeps the greatest entry seen so far
RECURSIVE ScanMax(_, _, _)
ScanMax(s, p, cur) ==
    IF p > Len(s) THEN cur
    ELSE IF Greater(s[p].val, cur.val) THEN ScanMax(s, p + 1, s[p])
    ELSE ScanMax(s, p + 1, cur)

\* the case testing sim.i alone
DroppedByI(sim, m) == sim.i = m.j

\* case sim.i == maxsim.j || sim.j == maxsim.j
Dropped(sim, m) == sim.i = m.j \/ sim.j = m.j

\* the case testing sim.i alone
RecomputedByI(sim, m) == sim.i = m.i

\* case sim.i == maxsim.i || sim.j == maxsim.i
Recomputed(sim, m) == sim.i = m.i \/ sim.j = m.i

\* no barrier: Wait returning at once
WaitSkipped == TRUE

\* wg.Wait() returns
WaitReturns == wg = 0

\* Done leaving the counter as it is
WgDoneLost(c) == c

\* wg.Done()
WgDone(c) == c - 1

Workers == 1..procs

\* the state when Cluster(vecs) has started its workers, the vectors having
\* been built by NewVec from the token lists
Start(inputs, pool) ==
    /\ input \in inputs
    /\ procs \in 1..pool
    /\ vecs = [x \in 0..(Len(input) - 1) |-> NewVec(input[x + 1])]
    /\ sims = [p \in 1..SimsLen(Len(input)) |-> ZeroEntry]
    /\ queue = <<>>
    /\ closed = FALSE
    /\ wg = 0
    /\ pc = "populate"
    /\ pi = 1
    /\ pj = 0
    /\ n = 0
    /\ k = 0
    /\ round = 0
    /\ maxsim = ZeroEntry
    /\ merges = <<>>
    /\ wpc = [w \in 1..procs |-> "idle"]
    /\ wn = [w \in 1..procs |-> 0]
    /\ clusters = <<>>
    /\ flagged = <<>>
    /\ mi = 0
    /\ arrays = <<>>
    /\ chdr = <<>>
    /\ fhdr = <<>>

Init == Start(Inputs, MaxProcs)

interpVars == <<clusters, flagged, mi, arrays, chdr, fhdr>>
workerVars == <<wpc, wn>>

\* the population writing simEntry{j, i, 0}
PopulateWriteSwapped ==
    /\ pc = "populate"
    /\ pi < N
    /\ sims' = [sims EXCEPT ![n + 1] = [i |-> pj, j |-> pi, val |-> Zero]]
    /\ wg' = wg + 1
    /\ pc' = "populateSend"
    /\ UNCHANGED <<input, procs, vecs, queue, closed, pi, pj, n, k, round,
                   maxsim, merges, workerVars, interpVars>>

\* sims[n] = simEntry{i, j, 0}; wg.Add(1)
PopulateWrite ==
    /\ pc = "populate"
    /\ pi < N
    /\ sims' = [sims EXCEPT ![n + 1] = [i |-> pi, j |-> pj, val |-> Zero]]
    /\ wg' = wg + 1
    /\ pc' = "populateSend"
    /\ UNCHANGED <<input, procs, vecs, queue, closed, pi, pj, n, k, round,
                   maxsim, merges, workerVars, interpVars>>

\* queue <- n; n++; and the advance of the loops over i and j
PopulateSend ==
    /\ pc = "populateSend"
    /\ Len(queue) < QueueCap
    /\ queue' = Append(queue, n)
    /\ n' = n + 1
    /\ IF pj + 1 < pi
       THEN pj' = pj + 1 /\ pi' = pi
       ELSE pj' = 0 /\ pi' = pi + 1
    /\ pc' = "populate"
    /\ UNCHANGED <<input, procs, vecs, sims, closed, wg, k, round, maxsim,
                   merges, workerVars, interpVars>>

\* the population followed by no wg.Wait()
PopulateNoWait ==
    /\ pc = "populate"
    /\ pi >= N
    /\ pc' = IF N - 1 < 0 THEN "panic" ELSE "round"
    /\ UNCHANGED <<input, procs, vecs, sims, queue, closed, wg, pi, pj, n, k,
                   round, maxsim, merges, workerVars, interpVars>>

\* wg.Wait() after the population, then merges := make([]Merge, 0, len(vecs)-1),
\* which panics when the capacity is negative
PopulateWait ==
    /\ pc = "populate"
    /\ pi >= N
    /\ WaitReturns
    /\ pc' = IF N - 1 < 0 THEN "panic" ELSE "round"
    /\ UNCHANGED <<input, procs, vecs, sims, queue, closed, wg, pi, pj, n, k,
                   round, maxsim, merges, workerVars, interpVars>>

\* the argmax loop of a round; sims[0] panics on an empty slice
Select ==
    /\ pc = "round"
    /\ round < RoundLimit
    /\ IF Len(sims) = 0
       THEN pc' = "panic" /\ maxsim' = maxsim
       ELSE pc' = "add" /\ maxsim' = ScanMax(sims, 1, sims[1])
    /\ UNCHANGED <<input, procs, vecs, sims, queue, closed, wg, pi, pj, n, k,
                   round, merges, workerVars, interpVars>>

\* vecs[maxsim.i].Add(vecs[maxsim.j]); n = 0
AddStep ==
    /\ pc = "add"
    /\ vecs' = [vecs EXCEPT ![maxsim.i] = Add(vecs[maxsim.i], vecs[maxsim.j])]
    /\ n' = 0
    /\ k' = 0
    /\ pc' = "scan"
    /\ UNCHANGED <<input, procs, sims, queue, closed, wg, pi, pj, round,
                   maxsim, merges, workerVars, interpVars>>

\* one iteration of the update loop, up to the send of a recomputed entry
Scan ==
    /\ pc = "scan"
    /\ k < Len(sims)
    /\ LET sim == sims[k + 1] IN
       IF Dropped(sim, maxsim)
       THEN /\ k' = k + 1
            /\ UNCHANGED <<sims, wg, n, pc>>
       ELSE IF Recomputed(sim, maxsim)
       THEN /\ sims' = [sims EXCEPT ![n + 1] = [i |-> sim.i, j |-> sim.j, val |-> Zero]]
            /\ wg' = wg + 1
            /\ pc' = "scanSend"
            /\ UNCHANGED <<n, k>>
       ELSE /\ sims' = [sims EXCEPT ![n + 1] = sim]
            /\ n' = n + 1
            /\ k' = k + 1
            /\ UNCHANGED <<wg, pc>>
    /\ UNCHANGED <<input, procs, vecs, queue, closed, pi, pj, round, maxsim,
                   merges, workerVars, interpVars>>

\* the send of the update loop without n++
ScanSendNoIncrement ==
    /\ pc = "scanSend"
    /\ Len(queue) < QueueCap
    /\ queue' = Append(queue, n)
    /\ k' = k + 1
    /\ pc' = "scan"
    /\ UNCHANGED <<input, procs, vecs, sims, closed, wg, pi, pj, n, round,
                   maxsim, merges, workerVars, interpVars>>

\* queue <- n; n++ in the update loop
ScanSend ==
    /\ pc = "scanSend"
    /\ Len(queue) < QueueCap
    /\ queue' = Append(queue, n)
    /\ n' = n + 1
    /\ k' = k + 1
    /\ pc' = "scan"
    /\ UNCHANGED <<input, procs, vecs, sims, closed, wg, pi, pj, round,
                   maxsim, merges, workerVars, interpVars>>

\* the end of a round without its wg.Wait()
EndRoundNoWait ==
    /\ pc = "scan"
    /\ k >= Len(sims)
    /\ LET newLen == Len(sims) - N + round + 1 IN
       IF newLen < 0 \/ newLen > Len(sims)
       THEN pc' = "panic" /\ UNCHANGED <<sims, merges, round>>
       ELSE /\ sims' = SubSeq(sims, 1, newLen)
            /\ merges' = Append(merges, [Left |-> maxsim.i, Right |-> maxsim.j])
            /\ round' = round + 1
            /\ pc' = "round"
    /\ UNCHANGED <<input, procs, vecs, queue, closed, wg, pi, pj, n, k,
                   maxsim, workerVars, interpVars>>

\* wg.Wait(); sims = sims[:len(sims)-len(vecs)+round+1]; append the Merge; round++
EndRound ==
    /\ pc = "scan"
    /\ k >= Len(sims)
    /\ WaitReturns
    /\ LET newLen == Len(sims) - N + round + 1 IN
       IF newLen < 0 \/ newLen > Len(sims)
       THEN pc' = "panic" /\ UNCHANGED <<sims, merges, round>>
       ELSE /\ sims' = SubSeq(sims, 1, newLen)
            /\ merges' = Append(merges, [Left |-> maxsim.i, Right |-> maxsim.j])
            /\ round' = round + 1
            /\ pc' = "round"
    /\ UNCHANGED <<input, procs, vecs, queue, closed, wg, pi, pj, n, k,
                   maxsim, workerVars, interpVars>>

\* close(queue); return merges
Return ==
    /\ pc = "round"
    /\ round >= RoundLimit
    /\ closed' = TRUE
    /\ pc' = "returned"
    /\ UNCHANGED <<input, procs, vecs, sims, queue, wg, pi, pj, n, k, round,
                   maxsim, merges, workerVars, interpVars>>

Running == pc # "panic"

\* for n := range queue: receive a slot, or leave the loop once the channel
\* is closed and drained
Receive(w) ==
    /\ Running
    /\ w \in Workers
    /\ wpc[w] = "idle"
    /\ IF queue # <<>>
       THEN /\ wn' = [wn EXCEPT ![w] = Head(queue)]
            /\ queue' = Tail(queue)
            /\ wpc' = [wpc EXCEPT ![w] = "compute"]
       ELSE /\ closed
            /\ wpc' = [wpc EXCEPT ![w] = "exited"]
            /\ UNCHANGED <<wn, queue>>
    /\ UNCHANGED <<input, procs, vecs, sims, closed, wg, pc, pi, pj, n, k,
                   round, maxsim, merges, interpVars>>

\* sims[n].val = vecs[sims[n].i].Sim(vecs[sims[n].j])
Compute(w) ==
    /\ Running
    /\ w \in Workers
    /\ wpc[w] = "compute"
    /\ IF wn[w] + 1 > Len(sims)
       THEN pc' = "panic" /\ UNCHANGED <<sims, wpc>>
       ELSE /\ sims' = [sims EXCEPT ![wn[w] + 1].val =
                           Sim(vecs[sims[wn[w] + 1].i], vecs[sims[wn[w] + 1].j])]
            /\ wpc' = [wpc EXCEPT ![w] = "ack"]
            /\ pc' = pc
    /\ UNCHANGED <<input, procs, vecs, queue, closed, wg, pi, pj, n, k, round,
                   maxsim, merges, wn, interpVars>>

\* wg.Done(), which panics on a negative counter; the loop variable n of the
\* worker is dead until the next receive and is reset here
Done(w) ==
    /\ Running
    /\ w \in Workers
    /\ wpc[w] = "ack"
    /\ IF WgDone(wg) < 0
       THEN pc' = "panic" /\ UNCHANGED <<wg, wpc, wn>>
       ELSE /\ wg' = WgDone(wg)
            /\ wpc' = [wpc EXCEPT ![w] = "idle"]
            /\ wn' = [wn EXCEPT ![w] = 0]
            /\ pc' = pc
    /\ UNCHANGED <<input, procs, vecs, sims, queue, closed, pi, pj, n, k,
                   round, maxsim, merges, interpVars>>

----------------------------------------------------------------------------
(* Interpret, called on the merges Cluster returned *)

\* the size test passing three members
SubstantialFromThree(c) == Len(c) >= 3

\* len(clusters[x]) > 3
Substantial(c) == Len(c) > 3

\* the threshold test passing a side of exactly half the merges
AtMostHalf(c, total) == Len(c) <= total \div 2

\* len(clusters[x]) < len(merges)/2
BelowHalf(c, total) == Len(c) < total \div 2

\* the elements a slice header shows: the first len cells of its array
View(arrs, h) == SubSeq(arrs[h.arr], 1, h.len)

\* cap of a slice that starts at the first cell of its array
Cap(arrs, h) == Len(arrs[h.arr])

\* the capacities append may give a new array that has to hold `needed`
\* elements: the Go specification leaves the choice to the implementation;
\* an exact fit and a doubling are modelled
AppendCaps(needed) == {needed, 2 * needed}

\* append(l, r...) on the memory: in place when cap(l) suffices, else into a
\* new zeroed array of capacity c; the arrays after it and the header returned
AppendArrays(arrs, l, r, c) ==
    LET vals == View(arrs, r)
        total == l.len + r.len
    IN  IF total <= Cap(arrs, l)
        THEN [arrs EXCEPT ![l.arr] =
                 [q \in 1..Len(arrs[l.arr]) |->
                     IF q > l.len /\ q <= total THEN vals[q - l.len]
                     ELSE arrs[l.arr][q]]]
        ELSE Append(arrs, [q \in 1..c |->
                              IF q <= l.len THEN arrs[l.arr][q]
                              ELSE IF q <= total THEN vals[q - l.len]
                              ELSE 0])

AppendHeader(arrs, l, r) ==
    IF l.len + r.len <= Cap(arrs, l)
    THEN [arr |-> l.arr, len |-> l.len + r.len]
    ELSE [arr |-> Len(arrs) + 1, len |-> l.len + r.len]

\* clusters := make([][]int, len(merges)+1), each clusters[i] = []int{i}
InterpretStart ==
    /\ pc = "returned"
    /\ clusters' = [x \in 0..Len(merges) |-> <<x>>]
    /\ flagged' = <<>>
    /\ mi' = 0
    /\ arrays' = [a \in 1..(Len(merges) + 1) |-> <<a - 1>>]
    /\ chdr' = [x \in 0..Len(merges) |-> [arr |-> x + 1, len |-> 1]]
    /\ fhdr' = <<>>
    /\ pc' = "interpret"
    /\ UNCHANGED <<input, procs, vecs, sims, queue, closed, wg, pi, pj, n, k,
                   round, maxsim, merges, workerVars>>

\* the flagged sides, right before left
FlagsRightFirst(left, right, total) ==
    IF Substantial(left) /\ Substantial(right)
    THEN (IF BelowHalf(right, total) THEN <<right>> ELSE <<>>)
         \o (IF BelowHalf(left, total) THEN <<left>> ELSE <<>>)
    ELSE <<>>

\* the sides of a merge that get flagged, left before right
Flags(left, right, total) ==
    IF Substantial(left) /\ Substantial(right)
    THEN (IF BelowHalf(left, total) THEN <<left>> ELSE <<>>)
         \o (IF BelowHalf(right, total) THEN <<right>> ELSE <<>>)
    ELSE <<>>

\* the slice headers appended to flagged by one merge, left before right
FlagHeaders(arrs, l, r, total) ==
    IF Substantial(View(arrs, l)) /\ Substantial(View(arrs, r))
    THEN (IF BelowHalf(View(arrs, l), total) THEN <<l>> ELSE <<>>)
         \o (IF BelowHalf(View(arrs, r), total) THEN <<r>> ELSE <<>>)
    ELSE <<>>

\* one iteration of the loop over merges
InterpretStep ==
    /\ pc = "interpret"
    /\ mi < Len(merges)
    /\ LET merge == merges[mi + 1] IN
       IF merge.Left \notin DOMAIN clusters \/ merge.Right \notin DOMAIN clusters
       THEN pc' = "panic" /\ UNCHANGED <<clusters, flagged, mi, arrays, chdr, fhdr>>
       ELSE /\ flagged' = flagged \o Flags(clusters[merge.Left],
                                            clusters[merge.Right], Len(merges))
            /\ clusters' = [clusters EXCEPT ![merge.Left] =
                               clusters[merge.Left] \o clusters[merge.Right]]
            /\ fhdr' = fhdr \o FlagHeaders(arrays, chdr[merge.Left],
                                            chdr[merge.Right], Len(merges))
            /\ \E c \in AppendCaps(chdr[merge.Left].len + chdr[merge.Right].len) :
                  arrays' = AppendArrays(arrays, chdr[merge.Left], chdr[merge.Right], c)
            /\ chdr' = [chdr EXCEPT ![merge.Left] =
                           AppendHeader(arrays, chdr[merge.Left], chdr[merge.Right])]
            /\ mi' = mi + 1
            /\ pc' = pc
    /\ UNCHANGED <<input, procs, vecs, sims, queue, closed, wg, pi, pj, n, k,
                   round, maxsim, merges, workerVars>>

\* return flagged
InterpretReturn ==
    /\ pc = "interpret"
    /\ mi >= Len(merges)
    /\ pc' = "done"
    /\ UNCHANGED <<input, procs, vecs, sims, queue, closed, wg, pi, pj, n, k,
                   round, maxsim, merges, workerVars, interpVars>>

Driver ==
    \/ PopulateWrite
    \/ PopulateSend
    \/ PopulateWait
    \/ Select
    \/ AddStep
    \/ Scan
    \/ ScanSend
    \/ EndRound
    \/ Return
    \/ InterpretStart
    \/ InterpretStep
    \/ InterpretReturn

Worker(w) == Receive(w) \/ Compute(w) \/ Done(w)

Next == Driver \/ \E w \in 1..MaxProcs : Worker(w)

Spec == Init /\ [][Next]_vars

\* Scenario C alone
InitC == Start({ScenarioC}, ScenarioProcs)
SpecC == InitC /\ [][Next]_vars

\* the eleven-vector inputs alone
InitF == Start({ScenarioF, ScenarioG, ScenarioH}, ScenarioProcs)
SpecF == InitF /\ [][Next]_vars

\* the inputs of ten vectors, which give the most merges below ten
InitT == Start({ScenarioC, ScenarioT}, ScenarioProcs)
SpecT == InitT /\ [][Next]_vars

\* the Go scheduler runs every goroutine that can take a step
Fairness == WF_vars(Driver) /\ \A w \in 1..MaxProcs : WF_vars(Worker(w))
FairSpec == Spec /\ Fairness

----------------------------------------------------------------------------
(* Properties *)

Returned == pc \in {"returned", "interpret", "done"}

\* the indices absorbed so far
Absorbed == {merges[q].Right : q \in DOMAIN merges}

\* tasks dispatched and not yet acknowledged by wg.Done
Outstanding ==
    Len(queue) + Cardinality({w \in Workers : wpc[w] \in {"compute", "ack"}})

\* C1: once Cluster has returned on n >= 2 vectors there are exactly n-1
\* merges, and every index of 0..n-1 but one is the Right of exactly one merge,
\* that one index being the Right of none.
C1_Completeness ==
    (N >= 2 /\ Returned) =>
        /\ Len(merges) = N - 1
        /\ \E s \in 0..(N - 1) :
              /\ \A q \in DOMAIN merges : merges[q].Right # s
              /\ \A x \in (0..(N - 1)) \ {s} :
                    Cardinality({q \in DOMAIN merges : merges[q].Right = x}) = 1

C1_Witness == N >= 3 /\ pc = "returned" /\ Len(merges) = N - 1

\* C2: Cluster on zero vectors never ends in a panic.
C2_EmptyInputNoError == N = 0 => pc # "panic"

\* C3: on one vector nothing is ever dispatched, no round runs, the merges stay
\* empty, nothing fails, and Interpret of the empty merges returns no flagged
\* list.
C3_SingleVector ==
    N = 1 =>
        /\ queue = <<>> /\ wg = 0
        /\ \A w \in Workers : wpc[w] \in {"idle", "exited"}
        /\ pc \in {"populate", "round", "returned", "interpret", "done"}
        /\ round = 0
        /\ merges = <<>>
        /\ flagged = <<>>

C3_Witness == N = 1 /\ pc = "done" /\ merges = <<>> /\ flagged = <<>>

\* m is in s, no entry of s has a greater value, and every entry before m has
\* a smaller one
FirstMax(m, s) ==
    \E p \in 1..Len(s) :
        /\ s[p] = m
        /\ \A q \in 1..Len(s) : ~Greater(s[q].val, s[p].val)
        /\ \A q \in 1..(p - 1) : Greater(s[p].val, s[q].val)

\* C4: the entry a round selects is an entry of two active indices, of maximal
\* cached value, the first such in the order of sims; it stays the selected
\* entry until the round ends, and it is the Merge the round records.
C4_ArgMax ==
    [][ /\ (pc = "round" /\ pc' = "add") =>
              /\ FirstMax(maxsim', sims)
              /\ maxsim'.i \notin Absorbed /\ maxsim'.j \notin Absorbed
              /\ maxsim'.i # maxsim'.j
        /\ (pc \in {"add", "scan", "scanSend"}) => maxsim' = maxsim
        /\ (merges' # merges) =>
              merges' = Append(merges, [Left |-> maxsim.i, Right |-> maxsim.j])
      ]_vars

\* a selection among tied maxima that did not take the last of them, after a
\* compaction
C4_Witness ==
    /\ pc = "add" /\ round >= 1
    /\ \E p, q \in 1..Len(sims) :
          p < q /\ sims[p] = maxsim /\ sims[q].val = maxsim.val

\* C5: with n >= 2 vectors and fair scheduling, Cluster gets past every send
\* and every Wait and returns with n-1 rounds done, and every worker of the
\* pool exits.
C5_NoDeadlock ==
    (N >= 2) ~> (/\ Returned /\ closed /\ round = N - 1 /\ Len(merges) = N - 1
                 /\ queue = <<>> /\ wg = 0
                 /\ \A w \in Workers : wpc[w] = "exited")

C5_Witness ==
    /\ N >= 2 /\ procs = MaxProcs /\ Returned /\ round = N - 1
    /\ \A w \in Workers : wpc[w] = "exited"

\* C6: in Scenario A, when round 0 selects, the entry of 0 and 1 has a value
\* above 0 and every other entry has value 0, and the first merge joins 0 and 1.
C6_ScenarioA ==
    input = ScenarioA =>
        /\ (pc = "round" /\ round = 0) =>
              \A p \in 1..Len(sims) :
                  IF {sims[p].i, sims[p].j} = {0, 1}
                  THEN Greater(sims[p].val, Zero)
                  ELSE sims[p].val = Zero
        /\ Len(merges) >= 1 => {merges[1].Left, merges[1].Right} = {0, 1}

C6_Witness == input = ScenarioA /\ Len(merges) = 1

\* the merges of Scenario C under the first-entry rule
ScenarioCMerges == [q \in 1..9 |-> [Left |-> q, Right |-> q - 1]]

\* C7: in Scenario C every cached value is 0 throughout, every round selects
\* the first entry of sims, and Cluster returns the same 9 merges in every run.
C7_ScenarioC ==
    input = ScenarioC =>
        /\ \A p \in 1..Len(sims) : sims[p].val = Zero
        /\ pc = "add" => maxsim = sims[1]
        /\ Returned => Len(merges) = 9 /\ merges = ScenarioCMerges

C7_Witness == input = ScenarioC /\ pc = "done" /\ Len(merges) = 9

\* C8: every flagged list has more than 3 members and is not the cluster of
\* all n indices.
C8_FlaggingBound ==
    \A f \in 1..Len(flagged) :
        /\ Len(flagged[f]) > 3
        /\ Range(flagged[f]) # 0..(N - 1)

\* a run that flagged both sides of one merge
C8_Witness == pc = "done" /\ Len(flagged) = 2

\* C9: Sim of any two current vectors is 0 when either has norm 0, every cached
\* value of such a pair is 0 at selection, and an input with zero vectors
\* neither panics nor returns other than n-1 merges.
C9_ZeroVectors ==
    /\ \A x, y \in DOMAIN vecs :
          (vecs[x].Length = 0 \/ vecs[y].Length = 0) => Sim(vecs[x], vecs[y]) = Zero
    /\ (pc = "round") =>
          \A p \in 1..Len(sims) :
              (vecs[sims[p].i].Length = 0 \/ vecs[sims[p].j].Length = 0)
                  => sims[p].val = Zero
    /\ (N >= 2 /\ \E x \in 1..N : input[x] = <<>>) =>
          /\ pc # "panic"
          /\ Returned => Len(merges) = N - 1

C9_Witness ==
    /\ N >= 3 /\ \A x \in 1..N : input[x] = <<>>
    /\ pc = "returned" /\ Len(merges) = N - 1

\* C10: whenever a round is about to select, no dispatched task is
\* unacknowledged.
C10_Barrier == (pc = "round" /\ round < RoundLimit) => Outstanding = 0 /\ wg = 0

\* a selection that follows an update which dispatched to a full pool
C10_Witness == pc = "round" /\ round = 1 /\ round < RoundLimit /\ procs = MaxProcs

\* the slots of the tasks dispatched and not yet acknowledged
OutSlots ==
    Range(queue) \cup {wn[w] : w \in {v \in Workers : wpc[v] \in {"compute", "ack"}}}

Populating == pc \in {"populate", "populateSend"}
Updating == pc \in {"scan", "scanSend"}

\* C11: outstanding tasks have pairwise distinct slots, all below the slot
\* counter n, which never decreases within a phase and never passes the slot k
\* the update scan reads; a slot is sent right after the driver wrote its
\* entry with value 0; a worker changes nothing but the value of the slot it
\* received; and the driver changes no slot for which a task is outstanding.
C11_DisjointSlots ==
    /\ [](/\ Cardinality(OutSlots) = Outstanding
          /\ (Populating \/ Updating) => \A s \in OutSlots : s < n
          /\ Updating => n <= k)
    /\ [][ /\ ((Populating /\ Populating') \/ (Updating /\ Updating')) => n' >= n
           /\ (Len(queue') > Len(queue)) =>
                 /\ queue' = Append(queue, n) /\ n' = n + 1 /\ sims' = sims
                 /\ n \notin OutSlots
                 /\ sims[n + 1].val = Zero
                 /\ pc = "populateSend" => (sims[n + 1].i = pi /\ sims[n + 1].j = pj)
                 /\ pc = "scanSend" =>
                       (Recomputed(sims[n + 1], maxsim) /\ ~Dropped(sims[n + 1], maxsim))
           /\ \A w \in Workers :
                 (wpc[w] = "compute" /\ wpc'[w] = "ack") =>
                     /\ Len(sims') = Len(sims)
                     /\ \A p \in 1..Len(sims) :
                           IF p = wn[w] + 1
                           THEN sims'[p].i = sims[p].i /\ sims'[p].j = sims[p].j
                           ELSE sims'[p] = sims[p]
           /\ (sims' # sims /\ wpc' = wpc) =>
                 IF Populating \/ (Updating /\ k < Len(sims))
                 THEN /\ n \notin OutSlots
                      /\ Updating => k \notin OutSlots
                      /\ Len(sims') = Len(sims)
                      /\ \A p \in 1..Len(sims) : p # n + 1 => sims'[p] = sims[p]
                 ELSE OutSlots = {}
         ]_vars

\* two tasks of one update outstanding at once, while the scan goes on
C11_Witness ==
    /\ pc = "scan" /\ k < Len(sims)
    /\ Cardinality(OutSlots) >= 2

\* C12: the vectors change only in the driver's Add step, which changes the
\* surviving vector alone and runs with no task outstanding before and after
\* it; no step of a worker changes a vector, and no worker is about to read
\* one while the driver is at the Add.
C12_VectorsQuiescent ==
    /\ [](pc = "add" => (Outstanding = 0 /\ wg = 0))
    /\ [][ /\ (vecs' # vecs) =>
                 /\ pc = "add" /\ pc' = "scan"
                 /\ wpc' = wpc /\ queue' = queue /\ queue = <<>>
                 /\ \A w \in Workers : wpc[w] \in {"idle", "exited"}
                 /\ \A x \in DOMAIN vecs : x # maxsim.i => vecs'[x] = vecs[x]
           /\ (wpc' # wpc) => (vecs' = vecs /\ pc # "add")
         ]_vars

\* an Add that follows an update whose tasks went to a full pool
C12_Witness ==
    /\ pc = "scan" /\ k = 0 /\ round >= 1 /\ procs = MaxProcs
    /\ vecs[maxsim.i] # NewVec(input[maxsim.i + 1])

\* the indices not absorbed so far
Active == (0..(N - 1)) \ Absorbed

\* the number of unordered pairs of m things
Choose2(m) == (m * (m - 1)) \div 2

\* C13: whenever a round is about to start, and after the last one, sims has
\* C(n - round, 2) entries, each of two distinct active indices, no pair
\* twice and every pair of active indices present; and when the update scan
\* ends, the entries it kept number len(sims)-n+round+1.
C13_ExactPairs ==
    /\ (pc = "round" \/ Returned) =>
          /\ round = Len(merges)
          /\ Cardinality(Active) = N - round
          /\ Len(sims) = Choose2(N - round)
          /\ \A p \in 1..Len(sims) :
                /\ sims[p].i \in Active /\ sims[p].j \in Active
                /\ sims[p].i # sims[p].j
          /\ \A p, q \in 1..Len(sims) :
                p < q => {sims[p].i, sims[p].j} # {sims[q].i, sims[q].j}
          /\ \A a, b \in Active :
                a # b => \E p \in 1..Len(sims) : {sims[p].i, sims[p].j} = {a, b}
    /\ (pc = "scan" /\ k >= Len(sims)) => n = Len(sims) - N + round + 1

\* the start of a later round with several entries left
C13_Witness == pc = "round" /\ round >= 1 /\ Len(sims) >= 3

\* C14: whenever a round is about to select, every cached value is the
\* similarity of the current vectors of its pair; during an update the
\* outstanding tasks are all for entries of the surviving index; and the
\* scan copies an entry of neither merged index with its value, sending
\* nothing, while an entry it sets up for recomputation is of the surviving
\* index.
C14_CachedValues ==
    /\ [](/\ (pc = "round") =>
                \A p \in 1..Len(sims) :
                    sims[p].val = Sim(vecs[sims[p].i], vecs[sims[p].j])
          /\ Updating => \A s \in OutSlots : Recomputed(sims[s + 1], maxsim))
    /\ [][ /\ (pc = "scan" /\ k' = k + 1 /\ pc' = "scan"
                  /\ ~Dropped(sims[k + 1], maxsim)) =>
                 /\ sims[k + 1].i # maxsim.i /\ sims[k + 1].j # maxsim.i
                 /\ sims'[n + 1] = sims[k + 1]
                 /\ n' = n + 1 /\ queue' = queue /\ wg' = wg
           /\ (pc = "scan" /\ pc' = "scanSend") =>
                 /\ maxsim.i \in {sims[k + 1].i, sims[k + 1].j}
                 /\ sims'[n + 1].i = sims[k + 1].i /\ sims'[n + 1].j = sims[k + 1].j
         ]_vars

\* a round start after an update that changed a value and kept a positive one
C14_Witness ==
    /\ pc = "round" /\ round >= 1
    /\ \E p \in 1..Len(sims) :
          sims[p].val # Sim(NewVec(input[sims[p].i + 1]), NewVec(input[sims[p].j + 1]))
    /\ \E q \in 1..Len(sims) :
          /\ Greater(sims[q].val, Zero)
          /\ merges[round].Left \notin {sims[q].i, sims[q].j}

Sending == pc \in {"populateSend", "scanSend"}

\* C15: the queue never holds more tasks than the pool size; it grows only by
\* a send of the driver, one task at a time and only when below the pool
\* size; and a driver at a send with the queue full stays there until the
\* queue has shrunk.
C15_BoundedQueue ==
    /\ [](Len(queue) <= procs)
    /\ [][ /\ (Len(queue') > Len(queue)) =>
                 /\ Sending /\ ~Sending'
                 /\ wpc' = wpc /\ wn' = wn
                 /\ Len(queue) < procs
                 /\ Len(queue') = Len(queue) + 1
                 /\ SubSeq(queue', 1, Len(queue)) = queue
           /\ (Sending /\ Len(queue) = procs) =>
                 (pc' = pc /\ n' = n /\ Len(queue') <= Len(queue))
         ]_vars

\* the driver blocked at a send, the queue of the largest pool full
C15_Witness == Sending /\ Len(queue) = procs /\ procs = MaxProcs

\* C16: in every step of Interpret's loop the lists added to flagged are, left
\* before right, the sides with fewer than len(merges)/2 members of a merge
\* whose sides both have more than 3, as they were before the merge; the
\* elements every flagged slice shows in memory are those of the list flagged,
\* as are those of every clusters[x]; and no later step changes a flagged list.
C16_Flagging ==
    /\ [](/\ Len(fhdr) = Len(flagged)
          /\ \A f \in 1..Len(flagged) : View(arrays, fhdr[f]) = flagged[f]
          /\ \A x \in DOMAIN clusters : View(arrays, chdr[x]) = clusters[x])
    /\ [][ /\ (pc = "interpret" /\ mi' = mi + 1) =>
                 LET l == clusters[merges[mi + 1].Left]
                     r == clusters[merges[mi + 1].Right]
                     both == Len(l) > 3 /\ Len(r) > 3
                     half == Len(merges) \div 2
                 IN  flagged' = flagged
                                  \o (IF both /\ Len(l) < half THEN <<l>> ELSE <<>>)
                                  \o (IF both /\ Len(r) < half THEN <<r>> ELSE <<>>)
           /\ (pc = "interpret") =>
                 \A f \in 1..Len(flagged) :
                     /\ flagged'[f] = flagged[f]
                     /\ View(arrays', fhdr'[f]) = View(arrays, fhdr[f])
         ]_vars

\* both sides of a merge flagged, the left one sharing its array with the
\* cluster that has since grown in it
C16_Witness ==
    /\ pc = "done" /\ Len(flagged) = 2
    /\ \E x \in DOMAIN chdr :
          chdr[x].arr = fhdr[1].arr /\ chdr[x].len > fhdr[1].len

\* the member lists after the first cnt merges of ms, over indices 0..size-1
RECURSIVE MembersAfter(_, _, _)
MembersAfter(ms, cnt, size) ==
    IF cnt = 0 THEN [x \in 0..(size - 1) |-> <<x>>]
    ELSE LET prev == MembersAfter(ms, cnt - 1, size)
         IN  [prev EXCEPT ![ms[cnt].Left] = prev[ms[cnt].Left] \o prev[ms[cnt].Right]]

\* the sum of the original vectors of the listed indices
SumOfOriginals(list) ==
    LET keys == UNION {Range(input[x + 1]) : x \in Range(list)}
    IN  Renorm([key \in keys |->
                   Cardinality(UNION {{<<x, q>> : q \in {t \in DOMAIN input[x + 1] :
                                                             input[x + 1][t] = key}} :
                                      x \in Range(list)})])

\* the lists of the indices in act hold every index of 0..size-1 exactly once
Partitions(lists, act, size) ==
    /\ \A i \in act : Cardinality(Range(lists[i])) = Len(lists[i])
    /\ \A i, h \in act : i # h => Range(lists[i]) \cap Range(lists[h]) = {}
    /\ UNION {Range(lists[i]) : i \in act} = 0..(size - 1)

\* C17: at the start of every round of Cluster the vector of each active index
\* is the sum of the original vectors of the members its list has after the
\* merges made so far; the merges made are a prefix of those returned; in
\* Interpret, after mi merges, the list of each active index is that member
\* list; the active lists partition 0..n-1, and after the last merge the
\* survivor's list holds every index exactly once.
C17_MembersMirrorVectors ==
    /\ [](/\ (pc = "round") =>
                LET mem == MembersAfter(merges, Len(merges), N)
                IN  /\ \A i \in Active : vecs[i] = SumOfOriginals(mem[i])
                    /\ Partitions(mem, Active, N)
          /\ (pc \in {"interpret", "done"}) =>
                LET mem == MembersAfter(merges, mi, N)
                    act == (0..(N - 1)) \ {merges[q].Right : q \in 1..mi}
                IN  /\ Len(merges) + 1 = N
                    /\ \A i \in act : clusters[i] = mem[i]
                    /\ Partitions(clusters, act, N)
                    /\ (mi = Len(merges)) =>
                          /\ Cardinality(act) = 1
                          /\ \A i \in act : /\ Len(clusters[i]) = N
                                            /\ Range(clusters[i]) = 0..(N - 1))
    /\ [][Len(merges) <= Len(merges') /\ SubSeq(merges', 1, Len(merges)) = merges]_vars

\* Interpret between two merges, an active list of several members whose
\* vector in Cluster had changed direction
C17_Witness ==
    /\ pc = "interpret" /\ mi >= 1 /\ mi < Len(merges)
    /\ \E i \in (0..(N - 1)) \ {merges[q].Right : q \in 1..mi} :
          /\ Len(clusters[i]) >= 2
          /\ Sim(vecs[i], NewVec(input[i + 1])) # [num |-> 1, den |-> 1]

\* the similarity entries of all pairs i > j in the order of the population
\* loops, computed with no concurrency
SeqPopulate(vs, len) ==
    [p \in 1..Choose2(len) |->
        LET i == CHOOSE x \in 1..(len - 1) : Choose2(x) < p /\ p <= Choose2(x + 1)
            j == p - 1 - Choose2(i)
        IN  [i |-> i, j |-> j, val |-> Sim(vs[i], vs[j])]]

\* one round of Cluster computed with no concurrency
SeqRound(st) ==
    LET m == ScanMax(st.sims, 1, st.sims[1])
        nv == [st.vecs EXCEPT ![m.i] = Add(st.vecs[m.i], st.vecs[m.j])]
        Kept(e) == ~(e.i = m.j \/ e.j = m.j)
        kept == SelectSeq(st.sims, Kept)
    IN  [vecs |-> nv,
         sims |-> [p \in 1..Len(kept) |->
                     IF kept[p].i = m.i \/ kept[p].j = m.i
                     THEN [kept[p] EXCEPT !.val = Sim(nv[kept[p].i], nv[kept[p].j])]
                     ELSE kept[p]],
         merges |-> Append(st.merges, [Left |-> m.i, Right |-> m.j])]

\* the state of a Cluster without concurrency after r rounds
RECURSIVE SeqCluster(_)
SeqCluster(r) ==
    IF r = 0
    THEN [vecs |-> [x \in 0..(N - 1) |-> NewVec(input[x + 1])],
          sims |-> SeqPopulate([x \in 0..(N - 1) |-> NewVec(input[x + 1])], N),
          merges |-> <<>>]
    ELSE SeqRound(SeqCluster(r - 1))

\* C18: whatever the interleaving and the pool size, at the start of every
\* round the entries of sims, in their order and with their values, the
\* vectors and the merges made are those a Cluster without concurrency has
\* after as many rounds, and the merges returned are those it returns.
C18_Deterministic ==
    /\ (pc = "round") =>
          /\ sims = SeqCluster(round).sims
          /\ vecs = SeqCluster(round).vecs
          /\ merges = SeqCluster(round).merges
    /\ (pc = "add") => maxsim = ScanMax(SeqCluster(round).sims, 1, SeqCluster(round).sims[1])
    /\ Returned => merges = SeqCluster(N - 1).merges

\* four vectors of different directions and the largest pool: the update of
\* the first round with one worker computing and another before its Done
C18_Witness ==
    /\ input = ScenarioD /\ procs = MaxProcs
    /\ pc = "scan" /\ round = 0
    /\ \E w \in Workers : wpc[w] = "ack"
    /\ \E w \in Workers : wpc[w] = "compute"

\* the slots of sims that hold an entry: during the population those written
\* so far, afterwards all of them
Written ==
    {p \in 1..Len(sims) :
        Populating => p <= n + (IF pc = "populateSend" THEN 1 ELSE 0)}

\* C19: every entry written to sims has 0 <= j < i < n, so has the selected
\* entry and so has every merge (Left > Right); index n-1 is never absorbed
\* and, for n >= 2, it is the only index left when Cluster has returned.
C19_LargerSurvives ==
    /\ \A p \in Written : 0 <= sims[p].j /\ sims[p].j < sims[p].i /\ sims[p].i < N
    /\ (pc \in {"add", "scan", "scanSend"}) => maxsim.i > maxsim.j
    /\ \A q \in DOMAIN merges : merges[q].Left > merges[q].Right
    /\ (N - 1) \notin Absorbed
    /\ (Returned /\ N >= 2) => Active = {N - 1}

\* Cluster returned for three or more vectors, the first merge having been
\* absorbed by an index other than n-1
C19_Witness ==
    /\ pc = "returned" /\ N >= 3
    /\ merges[1].Left < N - 1
    /\ Active = {N - 1}

\* C20: while Interpret runs on fewer than 10 merges, and when it has
\* returned, nothing is flagged.
C20_NothingFlaggedBelowTen ==
    (pc \in {"interpret", "done"} /\ Len(merges) < 10) =>
        (flagged = <<>> /\ fhdr = <<>>)

\* Interpret has returned for nine merges, one of which joined two sides of
\* more than 3 members each
C20_Witness ==
    /\ pc = "done" /\ Len(merges) = 9
    /\ \E q \in DOMAIN merges :
          /\ Len(MembersAfter(merges, q - 1, N)[merges[q].Left]) > 3
          /\ Len(MembersAfter(merges, q - 1, N)[merges[q].Right]) > 3

====
